---- MODULE Spec2Model ----
(***************************************************************************)
(* N-up page composition of src/2up.py: place_page, compute_upright_size   *)
(* and the two layout builders build_writer_2up / build_writer_4up.        *)
(*                                                                         *)
(* Python floats are modelled as exact rationals <<numerator, denominator>>*)
(* (denominator > 0, lowest terms).  A pypdf Transformation is its ctm     *)
(* (a, b, c, d, e, f), which maps (x, y) to (a*x + c*y + e, b*x + d*y + f).*)
(***************************************************************************)
EXTENDS Integers, Sequences, FiniteSets, TLC

VARIABLES
    args,       \* the parsed command line / builder arguments (fixed for a run)
    sources,    \* the list of PdfReaders handed to the builder
    pc,         \* position in the builder (or in the place_page harness)
    W, H,       \* sheet dimensions resolved by the builder
    slots,      \* slot list computed by the builder: <<x, y, w, h>> each
    total,      \* number of sheets to produce
    i,          \* sheet index of the outer loop
    slot_idx,   \* slot index of the inner loop
    new_page,   \* the sheet being composed (None between sheets)
    writer,     \* PdfWriter: the sequence of sheets added so far
    out_file,   \* content of out_path: None until opened for writing
    frame,      \* locals of the most recent place_page call (None before)
    inputs,     \* main: the list of input paths
    exit_code,  \* exit status of the process: None while it runs
    handles     \* the file handles currently open

vars == <<args, sources, pc, W, H, slots, total, i, slot_idx, new_page,
          writer, out_file, frame, inputs, exit_code, handles>>

None == [none |-> TRUE]

-----------------------------------------------------------------------------
(* Bounds of the model *)

MaxPages == 3
MaxSources == 4
MaxLayoutSources == 1
MaxLayoutPages == 2
MaxTokenSources == 2
MaxInputs == 3

-----------------------------------------------------------------------------
(* Float arithmetic, as exact rationals *)

Abs(x) == IF x < 0 THEN -x ELSE x

RECURSIVE GCD(_, _)
GCD(a, b) == IF b = 0 THEN a ELSE GCD(b, a % b)

Rat(n, d) ==
    LET g == GCD(Abs(n), Abs(d))
        s == IF d < 0 THEN -1 ELSE 1
    IN  <<(s * n) \div g, (s * d) \div g>>

R(n) == <<n, 1>>

RAdd(p, q) ==
    LET g == GCD(p[2], q[2])
    IN  Rat(p[1] * (q[2] \div g) + q[1] * (p[2] \div g), p[2] * (q[2] \div g))

RNeg(p) == <<-p[1], p[2]>>

RSub(p, q) == RAdd(p, RNeg(q))

RMul(p, q) ==
    LET g1 == GCD(Abs(p[1]), q[2])
        g2 == GCD(Abs(q[1]), p[2])
    IN  Rat((p[1] \div g1) * (q[1] \div g2), (p[2] \div g2) * (q[2] \div g1))

\* p / q for q # 0 (Python raises ZeroDivisionError for q = 0)
RDiv(p, q) ==
    IF q[1] < 0 THEN RMul(p, <<-q[2], -q[1]>>) ELSE RMul(p, <<q[2], q[1]>>)

RLe(p, q) ==
    LET g == GCD(p[2], q[2])
    IN  p[1] * (q[2] \div g) <= q[1] * (p[2] \div g)

RLt(p, q) ==
    LET g == GCD(p[2], q[2])
    IN  p[1] * (q[2] \div g) < q[1] * (p[2] \div g)

\* Python's min(a, b): the first argument unless the second is smaller
PyMin(p, q) == IF RLt(q, p) THEN q ELSE p

-----------------------------------------------------------------------------
(* Module constants of 2up.py *)

PT_PER_IN == 72

SHEET_SIZES ==
    [letter |-> <<Rat(17 * PT_PER_IN, 2), R(11 * PT_PER_IN)>>,
     a4     |-> <<R(595), R(842)>>]

-----------------------------------------------------------------------------
(* pypdf.Transformation: ctm = <<a, b, c, d, e, f>> *)

Identity == <<R(1), R(0), R(0), R(1), R(0), R(0)>>

\* cosine and sine of a multiple of 90 degrees
CosDeg(deg) ==
    LET r == deg % 360
    IN  IF r = 0 THEN R(1) ELSE IF r = 180 THEN R(-1) ELSE R(0)

SinDeg(deg) ==
    LET r == deg % 360
    IN  IF r = 90 THEN R(1) ELSE IF r = 270 THEN R(-1) ELSE R(0)

\* Transformation.rotate(deg): counter-clockwise rotation appended to m
TRotate(m, deg) ==
    LET c == CosDeg(deg)
        s == SinDeg(deg)
    IN  <<RSub(RMul(m[1], c), RMul(m[2], s)), RAdd(RMul(m[1], s), RMul(m[2], c)),
          RSub(RMul(m[3], c), RMul(m[4], s)), RAdd(RMul(m[3], s), RMul(m[4], c)),
          RSub(RMul(m[5], c), RMul(m[6], s)), RAdd(RMul(m[5], s), RMul(m[6], c))>>

\* Transformation.scale(sx) with sy defaulting to sx
TScale(m, sx) ==
    <<RMul(m[1], sx), RMul(m[2], sx), RMul(m[3], sx), RMul(m[4], sx),
      RMul(m[5], sx), RMul(m[6], sx)>>

\* Transformation.translate(tx, ty)
TTranslate(m, tx, ty) ==
    <<m[1], m[2], m[3], m[4], RAdd(m[5], tx), RAdd(m[6], ty)>>

\* the image of the point (x, y) under ctm m
Apply(m, x, y) ==
    <<RAdd(RAdd(RMul(m[1], x), RMul(m[3], y)), m[5]),
      RAdd(RAdd(RMul(m[2], x), RMul(m[4], y)), m[6])>>

-----------------------------------------------------------------------------
(* compute_upright_size and place_page *)

\* mutant: the 90/270 swap is forgotten
compute_upright_size_noswap(page) ==
    <<page.mediabox.width, page.mediabox.height, page.rotation>>

\* `v is None`, for a value that is None or an int
IsNone(v) == ToString(v) = ToString(None)

\* line 178: getattr(page, "rotation", 0)
GetRotation(page) == IF "rotation" \in DOMAIN page THEN page.rotation ELSE 0

\* line 178: `v or 0` (None and 0 are the falsy values)
OrZero(v) == IF IsNone(v) THEN 0 ELSE IF v = 0 THEN 0 ELSE v

compute_upright_size(page) ==
    LET rot == OrZero(GetRotation(page))
        w   == page.mediabox.width
        h   == page.mediabox.height
    IN  IF rot \in {90, 270} THEN <<h, w, rot>> ELSE <<w, h, rot>>

\* lines 203-204: a zoom <= 0 is replaced by 1.0
ZoomOrOne(zoom) == IF RLe(zoom, R(0)) THEN R(1) ELSE zoom

\* mutant: max instead of min
BaseScaleMax(slot_w, slot_h, src_w, src_h) ==
    LET a == RDiv(slot_w, src_w)
        b == RDiv(slot_h, src_h)
    IN  IF RLt(a, b) THEN b ELSE a

\* line 209
BaseScale(slot_w, slot_h, src_w, src_h) ==
    PyMin(RDiv(slot_w, src_w), RDiv(slot_h, src_h))

\* mutant: the cap at base_scale is forgotten
ClampScaleNoCap(base_scale, zoom) == RMul(base_scale, zoom)

\* lines 212-214
ClampScale(base_scale, zoom) ==
    LET scale == RMul(base_scale, zoom)
    IN  IF RLt(base_scale, scale) THEN base_scale ELSE scale

\* mutant: 'top' and 'bottom' exchanged
YOffsetSwapped(align, slot_y, slot_h, src_h, scale) ==
    IF align = "bottom" THEN RAdd(slot_y, RSub(slot_h, RMul(src_h, scale)))
    ELSE IF align = "top" THEN slot_y
    ELSE RAdd(slot_y, RDiv(RSub(slot_h, RMul(src_h, scale)), R(2)))

\* lines 217-223
YOffset(align, slot_y, slot_h, src_h, scale) ==
    IF align = "top" THEN RAdd(slot_y, RSub(slot_h, RMul(src_h, scale)))
    ELSE IF align = "bottom" THEN slot_y
    ELSE RAdd(slot_y, RDiv(RSub(slot_h, RMul(src_h, scale)), R(2)))

\* mutant: the division by 2 is forgotten (content pushed to the right edge)
XOffsetRight(slot_x, slot_w, src_w, scale) ==
    RAdd(slot_x, RSub(slot_w, RMul(src_w, scale)))

\* line 226
XOffset(slot_x, slot_w, src_w, scale) ==
    RAdd(slot_x, RDiv(RSub(slot_w, RMul(src_w, scale)), R(2)))

\* mutant: the three steps composed in the reverse order
BuildTransformReversed(rot, scale, x_offset, y_offset) ==
    LET t0 == TTranslate(Identity, x_offset, y_offset)
        t1 == TScale(t0, scale)
    IN  IF rot # 0 THEN TRotate(t1, -rot) ELSE t1

\* lines 228-232
BuildTransform(rot, scale, x_offset, y_offset) ==
    LET t0 == Identity
        t1 == IF rot # 0 THEN TRotate(t0, -rot) ELSE t0
        t2 == TScale(t1, scale)
    IN  TTranslate(t2, x_offset, y_offset)

\* the local variables of one place_page call
PlaceLocals(src_page, slot_x, slot_y, slot_w, slot_h, zoom_arg, align) ==
    LET zoom       == ZoomOrOne(zoom_arg)
        ups        == compute_upright_size(src_page)
        src_w      == ups[1]
        src_h      == ups[2]
        rot        == ups[3]
        base_scale == BaseScale(slot_w, slot_h, src_w, src_h)
        scale      == ClampScale(base_scale, zoom)
        y_offset   == YOffset(align, slot_y, slot_h, src_h, scale)
        x_offset   == XOffset(slot_x, slot_w, src_w, scale)
    IN  [src_page |-> src_page, slot_x |-> slot_x, slot_y |-> slot_y,
         slot_w |-> slot_w, slot_h |-> slot_h, zoom_arg |-> zoom_arg,
         align |-> align, zoom |-> zoom, src_w |-> src_w, src_h |-> src_h,
         rot |-> rot, base_scale |-> base_scale, scale |-> scale,
         x_offset |-> x_offset, y_offset |-> y_offset,
         t |-> BuildTransform(rot, scale, x_offset, y_offset)]

\* line 234: merge_transformed_page appends the transformed page content
MergeTransformed(page, src_page, t, slot) ==
    [page EXCEPT !.content = Append(@, [src_page |-> src_page, t |-> t,
                                        slot |-> slot])]

\* PageObject.create_blank_page(width, height)
create_blank_page(width, height) ==
    [width |-> width, height |-> height, content |-> <<>>]

-----------------------------------------------------------------------------
(* Inputs of a run *)

PageShapes ==
    <<[width |-> R(612), height |-> R(792)],
      [width |-> R(792), height |-> R(612)],
      [width |-> R(595), height |-> R(842)],
      [width |-> R(200), height |-> R(100)]>>

Rotations == <<0, 90, 180, 270>>

\* page number j (0-based) of reader k: shape and rotation vary with k and j
Page(k, j) ==
    [reader |-> k, number |-> j,
     mediabox |-> PageShapes[((k + j) % Len(PageShapes)) + 1],
     rotation |-> Rotations[((k + 2 * j) % Len(Rotations)) + 1],
     broken |-> FALSE]

\* PdfReader of a document with n pages, the k-th of the list
Reader(k, n) == [pages |-> [j \in 1..n |-> Page(k, j - 1)]]

\* every list of 1..maxn readers with 1..maxp pages each
ReaderLists(maxn, maxp) ==
    UNION {{[k \in 1..n |-> Reader(k, c[k])] : c \in [1..n -> 1..maxp]} :
           n \in 1..maxn}

SourceLists == ReaderLists(MaxSources, MaxPages)

Modes == {"2up", "4up"}
Sheets == {"letter", "a4"}
Orientations == {"portrait", "landscape"}
Aligns == {"center", "top", "bottom"}
Stops == {"longest", "shortest"}
Zooms == {R(-1), R(0), Rat(1, 2), R(1), Rat(3, 2)}
\* --margin-in is any float: 6 inches leave no room on either preset
Margins == {R(0), Rat(1, 2), R(6)}
Gutters == {R(0), Rat(1, 4)}

\* tokens that are no choice of the command line, one per option
UnknownSheets == {"legal"}
UnknownOrientations == {"sideways"}
UnknownAligns == {"middle"}
UnknownStops == {"first"}

\* builder locals before the builder has run
Idle ==
    /\ W = None /\ H = None /\ slots = <<>> /\ total = 0
    /\ i = 0 /\ slot_idx = 0
    /\ new_page = None /\ writer = <<>> /\ out_file = None /\ frame = None
    /\ exit_code = None /\ handles = {}

\* Python exceptions that end a call: the value of pc once one is raised
Raised == {"ValueError", "IndexError", "PdfReadError", "OSError"}

\* Runs of a builder over every list of sources, for one sheet geometry
Init ==
    /\ args \in [mode : Modes, sheet : {"letter"}, orientation : {"portrait"},
                 align : {"center"}, stop : Stops, margin_in : {Rat(1, 2)},
                 gutter_in : {Rat(1, 4)}, gutter_y_in : {Rat(1, 2)},
                 zoom : {R(0), Rat(1, 2)}]
    /\ sources \in SourceLists
    /\ inputs = <<>>
    /\ pc = "build"
    /\ Idle

\* Runs of a builder over every configuration, for short lists of sources
LayoutSources == ReaderLists(MaxLayoutSources, MaxLayoutPages)

InitLayout ==
    /\ args \in [mode : Modes, sheet : Sheets, orientation : Orientations,
                 align : Aligns, stop : Stops, margin_in : Margins,
                 gutter_in : Gutters, gutter_y_in : Gutters,
                 zoom : {R(0), Rat(1, 2)}]
    /\ sources \in LayoutSources
    /\ inputs = <<>>
    /\ pc = "build"
    /\ Idle

\* Direct calls of a builder with recognized and unrecognized tokens
TokenSources == ReaderLists(MaxTokenSources, MaxLayoutPages)

InitTokens ==
    /\ args \in [mode : Modes, sheet : {"letter"} \cup UnknownSheets,
                 orientation : {"portrait"} \cup UnknownOrientations,
                 align : {"top"} \cup UnknownAligns,
                 stop : {"shortest"} \cup UnknownStops,
                 margin_in : {Rat(1, 2)}, gutter_in : {Rat(1, 4)},
                 gutter_y_in : {Rat(1, 4)}, zoom : {R(0)}]
    /\ sources \in TokenSources
    /\ inputs = <<>>
    /\ pc = "build"
    /\ Idle

\* A single place_page call on a blank sheet: slot, page, zoom and align drawn
\* from small sets (the last slot has a negative width)
PlaceSlots ==
    {<<R(0), R(0), R(396), R(612)>>,
     <<R(405), R(36), R(351), R(540)>>,
     <<R(0), R(396), R(306), R(396)>>,
     <<R(36), R(36), R(100), R(700)>>,
     <<R(36), R(36), R(-10), R(540)>>}

\* A single place_page call on a page whose rotation is absent, None, or an
\* int inside or outside {0, 90, 180, 270}
RotationInts == {0, 90, -90, 450, 540}

\* a page of the given shape without the attributes of a rotation
PlainPage(shape) ==
    [reader |-> 1, number |-> 0, mediabox |-> PageShapes[shape],
     broken |-> FALSE]

\* the page with its rotation attribute set to r
WithRotation(page, r) ==
    [f \in DOMAIN page \cup {"rotation"} |->
        IF f = "rotation" THEN r ELSE page[f]]

InitRotation ==
    /\ args \in [mode : {"2up"}, sheet : {"letter"}, orientation : {"portrait"},
                 align : Aligns, stop : {"longest"}, margin_in : {R(0)},
                 gutter_in : {R(0)}, gutter_y_in : {R(0)},
                 zoom : {R(0), Rat(1, 2)}]
    /\ \E shape \in 1..Len(PageShapes) :
           \/ sources = <<[pages |-> <<PlainPage(shape)>>]>>
           \/ sources = <<[pages |-> <<WithRotation(PlainPage(shape), None)>>]>>
           \/ \E r \in RotationInts :
                  sources = <<[pages |-> <<WithRotation(PlainPage(shape), r)>>]>>
    /\ slots \in {<<s>> : s \in PlaceSlots}
    /\ new_page = [width |-> R(792), height |-> R(612), content |-> <<>>]
    /\ pc = "place"
    /\ W = R(792) /\ H = R(612) /\ total = 1 /\ i = 0 /\ slot_idx = 0
    /\ writer = <<>> /\ out_file = None /\ frame = None
    /\ inputs = <<>> /\ exit_code = None /\ handles = {}

InitPlace ==
    /\ args \in [mode : {"2up"}, sheet : {"letter"}, orientation : {"portrait"},
                 align : Aligns, stop : {"longest"}, margin_in : {R(0)},
                 gutter_in : {R(0)}, gutter_y_in : {R(0)}, zoom : Zooms]
    /\ \E shape \in 1..Len(PageShapes), r \in 1..Len(Rotations) :
           sources = <<[pages |-> <<[reader |-> 1, number |-> 0,
                                     mediabox |-> PageShapes[shape],
                                     rotation |-> Rotations[r],
                                     broken |-> FALSE]>>]>>
    /\ slots \in {<<s>> : s \in PlaceSlots}
    /\ new_page = [width |-> R(792), height |-> R(612), content |-> <<>>]
    /\ pc = "place"
    /\ W = R(792) /\ H = R(612) /\ total = 1 /\ i = 0 /\ slot_idx = 0
    /\ writer = <<>> /\ out_file = None /\ frame = None
    /\ inputs = <<>> /\ exit_code = None /\ handles = {}

-----------------------------------------------------------------------------
(* Layout builders *)

PageCounts(srcs) == [k \in 1..Len(srcs) |-> Len(srcs[k].pages)]

RECURSIVE SeqMin(_)
SeqMin(s) ==
    IF Len(s) = 1 THEN s[1]
    ELSE LET m == SeqMin(Tail(s)) IN IF s[1] <= m THEN s[1] ELSE m

RECURSIVE SeqMax(_)
SeqMax(s) ==
    IF Len(s) = 1 THEN s[1]
    ELSE LET m == SeqMax(Tail(s)) IN IF s[1] >= m THEN s[1] ELSE m

\* mutant: the stop policy is ignored
TotalAlwaysMax(srcs, stop_mode) == SeqMax(PageCounts(srcs))

\* mutant: the stop policy is ignored, the shortest source decides
TotalAlwaysMin(srcs, stop_mode) == SeqMin(PageCounts(srcs))

\* lines 277-281 and 342-346
Total(srcs, stop_mode) ==
    LET counts == PageCounts(srcs)
    IN  IF stop_mode = "shortest" THEN SeqMin(counts) ELSE SeqMax(counts)

\* mutant: the preset is used as is (portrait)
SheetDims2upNoSwap(sheet_size) ==
    <<SHEET_SIZES[sheet_size][1], SHEET_SIZES[sheet_size][2]>>

\* lines 258-260
SheetDims2up(sheet_size) ==
    LET base_w == SHEET_SIZES[sheet_size][1]
        base_h == SHEET_SIZES[sheet_size][2]
    IN  <<base_h, base_w>>

\* lines 318-320
SheetDims4up(sheet_size, orientation) ==
    LET w0 == SHEET_SIZES[sheet_size][1]
        h0 == SHEET_SIZES[sheet_size][2]
    IN  IF orientation = "landscape" THEN <<h0, w0>> ELSE <<w0, h0>>

\* mutant: the gutter is left out of the right slot's position
Slots2upNoGutter(w, h, margin_in, gutter_in) ==
    LET margin    == RMul(margin_in, R(PT_PER_IN))
        gutter    == RMul(gutter_in, R(PT_PER_IN))
        slot_w    == RDiv(RSub(RSub(w, RMul(R(2), margin)), gutter), R(2))
        slot_h    == RSub(h, RMul(R(2), margin))
    IN  << <<margin, margin, slot_w, slot_h>>,
           <<RAdd(margin, slot_w), margin, slot_w, slot_h>> >>

\* mutant: the margins are not taken off the content width
Slots2upNoMargin(w, h, margin_in, gutter_in) ==
    LET margin    == RMul(margin_in, R(PT_PER_IN))
        gutter    == RMul(gutter_in, R(PT_PER_IN))
        slot_w    == RDiv(RSub(w, gutter), R(2))
        slot_h    == RSub(h, RMul(R(2), margin))
    IN  << <<margin, margin, slot_w, slot_h>>,
           <<RAdd(RAdd(margin, slot_w), gutter), margin, slot_w, slot_h>> >>

\* lines 262-274
Slots2up(w, h, margin_in, gutter_in) ==
    LET margin    == RMul(margin_in, R(PT_PER_IN))
        gutter    == RMul(gutter_in, R(PT_PER_IN))
        content_w == RSub(RSub(w, RMul(R(2), margin)), gutter)
        content_h == RSub(h, RMul(R(2), margin))
        slot_w    == RDiv(content_w, R(2))
        slot_h    == content_h
    IN  << <<margin, margin, slot_w, slot_h>>,
           <<RAdd(RAdd(margin, slot_w), gutter), margin, slot_w, slot_h>> >>

\* mutant: the bottom row is listed first
Slots4upBottomFirst(w, h, margin_in, gutter_x_in, gutter_y_in) ==
    LET margin    == RMul(margin_in, R(PT_PER_IN))
        gutter_x  == RMul(gutter_x_in, R(PT_PER_IN))
        gutter_y  == RMul(gutter_y_in, R(PT_PER_IN))
        slot_w    == RDiv(RSub(RSub(w, RMul(R(2), margin)), gutter_x), R(2))
        slot_h    == RDiv(RSub(RSub(h, RMul(R(2), margin)), gutter_y), R(2))
    IN  << <<margin, margin, slot_w, slot_h>>,
           <<RAdd(RAdd(margin, slot_w), gutter_x), margin, slot_w, slot_h>>,
           <<margin, RAdd(RAdd(margin, slot_h), gutter_y), slot_w, slot_h>>,
           <<RAdd(RAdd(margin, slot_w), gutter_x),
             RAdd(RAdd(margin, slot_h), gutter_y), slot_w, slot_h>> >>

\* lines 322-339
Slots4up(w, h, margin_in, gutter_x_in, gutter_y_in) ==
    LET margin    == RMul(margin_in, R(PT_PER_IN))
        gutter_x  == RMul(gutter_x_in, R(PT_PER_IN))
        gutter_y  == RMul(gutter_y_in, R(PT_PER_IN))
        content_w == RSub(RSub(w, RMul(R(2), margin)), gutter_x)
        content_h == RSub(RSub(h, RMul(R(2), margin)), gutter_y)
        slot_w    == RDiv(content_w, R(2))
        slot_h    == RDiv(content_h, R(2))
    IN  << <<margin, RAdd(RAdd(margin, slot_h), gutter_y), slot_w, slot_h>>,
           <<RAdd(RAdd(margin, slot_w), gutter_x),
             RAdd(RAdd(margin, slot_h), gutter_y), slot_w, slot_h>>,
           <<margin, margin, slot_w, slot_h>>,
           <<RAdd(RAdd(margin, slot_w), gutter_x), margin, slot_w, slot_h>> >>

\* lines 255-256: build_writer_2up rejects a sheet_size that is no preset
Build2upUnknownSheet ==
    /\ pc = "build"
    /\ args.mode = "2up"
    /\ args.sheet \notin DOMAIN SHEET_SIZES
    /\ pc' = "ValueError"
    /\ UNCHANGED <<inputs, exit_code, handles, args, sources, W, H, slots,
                   total, i, slot_idx, new_page, writer, out_file, frame>>

\* lines 315-316: build_writer_4up rejects a sheet_size that is no preset
Build4upUnknownSheet ==
    /\ pc = "build"
    /\ args.mode = "4up"
    /\ args.sheet \notin DOMAIN SHEET_SIZES
    /\ pc' = "ValueError"
    /\ UNCHANGED <<inputs, exit_code, handles, args, sources, W, H, slots,
                   total, i, slot_idx, new_page, writer, out_file, frame>>

\* build_writer_2up up to the sheet loop, for a sheet_size that is a preset
Build2upSetup ==
    /\ pc = "build"
    /\ args.mode = "2up"
    /\ args.sheet \in DOMAIN SHEET_SIZES
    /\ LET dims == SheetDims2up(args.sheet)
       IN  /\ W' = dims[1]
           /\ H' = dims[2]
           /\ slots' = Slots2up(dims[1], dims[2], args.margin_in, args.gutter_in)
    /\ writer' = <<>>
    /\ total' = Total(sources, args.stop)
    /\ i' = 0
    /\ pc' = "loop"
    /\ UNCHANGED <<inputs, exit_code, handles, args, sources, slot_idx,
                   new_page, out_file, frame>>

\* build_writer_4up up to the sheet loop, for a sheet_size that is a preset
Build4upSetup ==
    /\ pc = "build"
    /\ args.mode = "4up"
    /\ args.sheet \in DOMAIN SHEET_SIZES
    /\ LET dims == SheetDims4up(args.sheet, args.orientation)
       IN  /\ W' = dims[1]
           /\ H' = dims[2]
           /\ slots' = Slots4up(dims[1], dims[2], args.margin_in,
                                args.gutter_in, args.gutter_y_in)
    /\ writer' = <<>>
    /\ total' = Total(sources, args.stop)
    /\ i' = 0
    /\ pc' = "loop"
    /\ UNCHANGED <<inputs, exit_code, handles, args, sources, slot_idx,
                   new_page, out_file, frame>>

\* lines 283-284 / 348-349: next iteration of `for i in range(total)`
CreateBlankPage ==
    /\ pc = "loop"
    /\ i < total
    /\ new_page' = create_blank_page(W, H)
    /\ slot_idx' = 0
    /\ pc' = "slots"
    /\ UNCHANGED <<inputs, exit_code, handles, args, sources, W, H, slots,
                   total, i, writer, out_file, frame>>

\* line 286 / 351: the reader assigned to a slot (0-based indices)
PyMinInt(a, b) == IF b < a THEN b ELSE a

\* mutant: slots beyond the sources wrap to the first source
SourceIndexWrap(s, n) == IF s < n THEN s ELSE 0

SourceIndex(s, n) == PyMinInt(s, n - 1)

\* mutant: off-by-one bound
HasPageOffByOne(reader, idx) == idx <= Len(reader.pages)

\* line 287 / 352: does the reader have a page idx?
HasPage(reader, idx) == idx < Len(reader.pages)

\* reader.pages[idx]: IndexError when idx is out of range
IndexError == [error |-> "IndexError"]

GetPage(reader, idx) ==
    IF 0 <= idx /\ idx < Len(reader.pages) THEN reader.pages[idx + 1]
    ELSE IndexError

\* mutant: the zoom that place_page replaces is stored back into the
\* configuration
SlotStepZoomSticks ==
    /\ pc = "slots"
    /\ slot_idx < Len(slots)
    /\ LET slot   == slots[slot_idx + 1]
           reader == sources[SourceIndex(slot_idx, Len(sources)) + 1]
       IN  IF HasPage(reader, i)
           THEN LET src_page == GetPage(reader, i)
                    f == PlaceLocals(src_page, slot[1], slot[2], slot[3],
                                     slot[4], args.zoom, args.align)
                IN  /\ frame' = f
                    /\ new_page' = MergeTransformed(new_page, src_page, f.t,
                                                    slot_idx)
                    /\ args' = [args EXCEPT !.zoom = f.zoom]
           ELSE UNCHANGED <<new_page, frame, args>>
    /\ slot_idx' = slot_idx + 1
    /\ pc' = "slots"
    /\ UNCHANGED <<inputs, exit_code, handles, sources, W, H, slots, total, i,
                   writer, out_file>>

\* lines 285-292 / 350-357: one iteration of the slot loop
SlotStep ==
    /\ pc = "slots"
    /\ slot_idx < Len(slots)
    /\ LET slot   == slots[slot_idx + 1]
           reader == sources[SourceIndex(slot_idx, Len(sources)) + 1]
       IN  IF HasPage(reader, i)
           THEN LET src_page == GetPage(reader, i)
                IN  IF src_page = IndexError
                    THEN /\ pc' = "IndexError"
                         /\ UNCHANGED <<new_page, frame, slot_idx>>
                    ELSE IF src_page.broken
                    THEN \* the content of the page cannot be read: the merge
                         \* of line 234 raises
                         /\ pc' = "PdfReadError"
                         /\ UNCHANGED <<new_page, frame, slot_idx>>
                    ELSE LET f == PlaceLocals(src_page, slot[1], slot[2],
                                              slot[3], slot[4], args.zoom,
                                              args.align)
                         IN  /\ frame' = f
                             /\ new_page' = MergeTransformed(new_page, src_page,
                                                             f.t, slot_idx)
                             /\ slot_idx' = slot_idx + 1
                             /\ pc' = "slots"
           ELSE /\ slot_idx' = slot_idx + 1
                /\ pc' = "slots"
                /\ UNCHANGED <<new_page, frame>>
    /\ UNCHANGED <<inputs, exit_code, handles, args, sources, W, H, slots,
                   total, i, writer, out_file>>

\* mutant: the sheet is inserted at the front of the document
AddPageFirst ==
    /\ pc = "slots"
    /\ slot_idx = Len(slots)
    /\ writer' = <<new_page>> \o writer
    /\ i' = i + 1
    /\ pc' = "loop"
    /\ UNCHANGED <<inputs, exit_code, handles, args, sources, W, H, slots,
                   total, slot_idx, new_page,
                   out_file, frame>>

\* line 293 / 358: writer.add_page(new_page), end of the iteration
AddPage ==
    /\ pc = "slots"
    /\ slot_idx = Len(slots)
    /\ writer' = Append(writer, new_page)
    /\ i' = i + 1
    /\ pc' = "loop"
    /\ UNCHANGED <<inputs, exit_code, handles, args, sources, W, H, slots,
                   total, slot_idx, new_page,
                   out_file, frame>>

\* mutant: the output is opened at the top of the sheet loop, whatever i is
OpenOutputEarly ==
    /\ pc = "loop"
    /\ out_file' = [pages |-> <<>>, complete |-> FALSE]
    /\ handles' = handles \cup {"out"}
    /\ pc' = "write"
    /\ UNCHANGED <<inputs, exit_code, args, sources, W, H, slots, total, i,
                   slot_idx, new_page, writer, frame>>

\* line 295 / 360: the loop is over, `with open(out_path, "wb") as f`
\* creates or truncates the file and binds its handle
OpenOutput ==
    /\ pc = "loop"
    /\ i >= total
    /\ out_file' = [pages |-> <<>>, complete |-> FALSE]
    /\ handles' = handles \cup {"out"}
    /\ pc' = "write"
    /\ UNCHANGED <<inputs, exit_code, args, sources, W, H, slots, total, i,
                   slot_idx, new_page, writer, frame>>

\* line 295 / 360: open() raises (directory missing, no permission): no file
\* is created and no handle is bound
OpenOutputFails ==
    /\ pc = "loop"
    /\ i >= total
    /\ pc' = "OSError"
    /\ UNCHANGED <<inputs, exit_code, handles, args, sources, W, H, slots,
                   total, i, slot_idx, new_page, writer, out_file, frame>>

\* mutant: the file is opened without a with statement, a failed write
\* leaves the handle open
WriteOutputFailsLeak ==
    /\ pc = "write"
    /\ pc' = "OSError"
    /\ UNCHANGED <<inputs, exit_code, handles, args, sources, W, H, slots,
                   total, i, slot_idx, new_page, writer, out_file, frame>>

\* line 296 / 361: writer.write(f) raises (disk full); the with statement
\* closes the handle, the file stays incomplete
WriteOutputFails ==
    /\ pc = "write"
    /\ handles' = handles \ {"out"}
    /\ pc' = "OSError"
    /\ UNCHANGED <<inputs, exit_code, args, sources, W, H, slots, total, i,
                   slot_idx, new_page, writer, out_file, frame>>

\* line 296 / 361: writer.write(f) saves every sheet of the writer; leaving
\* the with block closes the handle
WriteOutput ==
    /\ pc = "write"
    /\ out_file' = [pages |-> writer, complete |-> TRUE]
    /\ handles' = handles \ {"out"}
    /\ pc' = "done"
    /\ UNCHANGED <<inputs, exit_code, args, sources, W, H, slots, total, i,
                   slot_idx, new_page, writer, frame>>

Next ==
    \/ Build2upSetup
    \/ Build4upSetup
    \/ CreateBlankPage
    \/ SlotStep
    \/ AddPage
    \/ OpenOutput
    \/ WriteOutput

Spec == Init /\ [][Next]_vars

SpecLayout == InitLayout /\ [][Next]_vars

\* a builder called with any token: the sheet size may be no preset
NextTokens ==
    \/ Next
    \/ Build2upUnknownSheet
    \/ Build4upUnknownSheet

SpecTokens == InitTokens /\ [][NextTokens]_vars

\* place_page(new_page, src_page, x, y, sw, sh, zoom, align), called once
PlaceCall ==
    /\ pc = "place"
    /\ LET slot     == slots[1]
           src_page == sources[1].pages[1]
           f        == PlaceLocals(src_page, slot[1], slot[2], slot[3], slot[4],
                                   args.zoom, args.align)
       IN  /\ frame' = f
           /\ new_page' = MergeTransformed(new_page, src_page, f.t, 0)
    /\ pc' = "placed"
    /\ UNCHANGED <<inputs, exit_code, handles, args, sources, W, H, slots,
                   total, i, slot_idx, writer,
                   out_file>>

NextPlace == PlaceCall

SpecPlace == InitPlace /\ [][NextPlace]_vars

SpecRotation == InitRotation /\ [][NextPlace]_vars

-----------------------------------------------------------------------------
(* main(): the command line run *)

\* The file system of a run: a.pdf has 1 page, b.pdf has 3, broken.pdf has 2
\* and the content of its second page cannot be read, bad.pdf is no PDF,
\* missing.pdf does not exist
Paths == {"a.pdf", "b.pdf", "broken.pdf", "bad.pdf", "missing.pdf"}

\* os.path.isfile(p)
IsFile(p) == p # "missing.pdf"

\* PdfReader(p) raises: the file cannot be parsed as a PDF
Malformed(p) == p = "bad.pdf"

DocPages(p) ==
    IF p = "a.pdf" THEN 1
    ELSE IF p = "b.pdf" THEN 3
    ELSE IF p = "broken.pdf" THEN 2
    ELSE 0

\* PdfReader(p), the k-th reader of the list (doc: the file a page is read
\* from)
PdfReader(k, p) ==
    [pages |-> [j \in 1..DocPages(p) |->
                   [reader |-> k, number |-> j - 1, doc |-> p,
                    mediabox |-> PageShapes[1], rotation |-> 0,
                    broken |-> (p = "broken.pdf" /\ j = 2)]]]

\* the *.pdf entries a directory listing returns
Listed == {p \in Paths : IsFile(p)}

\* every list of lo..hi paths drawn from S
PathLists(S, lo, hi) == UNION {[1..n -> S] : n \in lo..hi}

\* lines 386-389: the number of inputs of a mode
Needed(mode) == IF mode = "2up" THEN 2 ELSE 4

\* mutant: the first pick is repeated
RECURSIVE PadWithFirst(_, _)
PadWithFirst(picks, max_count) ==
    IF Len(picks) < max_count
    THEN PadWithFirst(Append(picks, picks[1]), max_count)
    ELSE picks

\* lines 166-167 / 394-395: the last pick is repeated up to max_count
RECURSIVE PadWithLast(_, _)
PadWithLast(picks, max_count) ==
    IF Len(picks) < max_count
    THEN PadWithLast(Append(picks, picks[Len(picks)]), max_count)
    ELSE picks

\* the slice s[:n]
Slice(s, n) == SubSeq(s, 1, PyMinInt(Len(s), n))

\* lines 165-169 / 392-396
PadTruncate(picks, max_count) == Slice(PadWithLast(picks, max_count), max_count)

\* The parsed command line: argparse admits only its choices for mode, sheet,
\* orientation, align and stop; the positional inputs are any list of paths
InitMain ==
    /\ args \in [mode : Modes, sheet : {"letter"}, orientation : {"portrait"},
                 align : {"center"}, stop : Stops, margin_in : {Rat(1, 2)},
                 gutter_in : {Rat(1, 4)}, gutter_y_in : {Rat(1, 4)},
                 zoom : {R(0)}, manual_inputs : BOOLEAN,
                 inputs : PathLists(Paths, 0, MaxInputs)]
    /\ sources = <<>>
    /\ inputs = <<>>
    /\ pc = "main"
    /\ Idle

\* lines 502-503 with resolve_inputs, lines 391-396: paths on the command line
MainResolveInputs ==
    /\ pc = "main"
    /\ args.manual_inputs
    /\ args.inputs # <<>>
    /\ inputs' = PadTruncate(args.inputs, Needed(args.mode))
    /\ pc' = "check_inputs"
    /\ UNCHANGED <<exit_code, handles, args, sources, W, H, slots, total, i,
                   slot_idx, new_page, writer, out_file, frame>>

\* lines 502-503 with resolve_inputs, line 398 and interactive_pick: the user
\* picks from the PDFs of the current folder (nothing to pick from: [])
MainInteractivePick ==
    /\ pc = "main"
    /\ args.manual_inputs
    /\ args.inputs = <<>>
    /\ \/ inputs' = <<>>
       \/ \E picks \in PathLists(Listed, 1, MaxInputs) :
              inputs' = PadTruncate(picks, Needed(args.mode))
    /\ pc' = "check_inputs"
    /\ UNCHANGED <<exit_code, handles, args, sources, W, H, slots, total, i,
                   slot_idx, new_page, writer, out_file, frame>>

\* lines 504-505 with get_single_input_from_search and find_pdf: one PDF
\* found by name, or [] (no search text, no match, invalid choice)
MainSearch ==
    /\ pc = "main"
    /\ ~args.manual_inputs
    /\ \/ inputs' = <<>>
       \/ \E p \in Listed : inputs' = <<p>>
    /\ pc' = "check_inputs"
    /\ UNCHANGED <<exit_code, handles, args, sources, W, H, slots, total, i,
                   slot_idx, new_page, writer, out_file, frame>>

\* mutant: an empty selection is not stopped
MainNoInputsGoesOn ==
    /\ pc = "check_inputs"
    /\ inputs = <<>>
    /\ pc' = "validate"
    /\ UNCHANGED <<inputs, exit_code, handles, args, sources, W, H, slots,
                   total, i, slot_idx, new_page, writer, out_file, frame>>

\* lines 507-509: `return` ends the process with exit status 0
MainNoInputs ==
    /\ pc = "check_inputs"
    /\ inputs = <<>>
    /\ exit_code' = 0
    /\ pc' = "exit"
    /\ UNCHANGED <<inputs, handles, args, sources, W, H, slots, total, i,
                   slot_idx, new_page, writer, out_file, frame>>

\* lines 511-515
MainTruncate ==
    /\ pc = "check_inputs"
    /\ inputs # <<>>
    /\ inputs' = Slice(inputs, Needed(args.mode))
    /\ pc' = "validate"
    /\ UNCHANGED <<exit_code, handles, args, sources, W, H, slots, total, i,
                   slot_idx, new_page, writer, out_file, frame>>

\* lines 517-521: an input is no file, `return` ends the process with status 0
MainFileNotFound ==
    /\ pc = "validate"
    /\ \E k \in 1..Len(inputs) : ~IsFile(inputs[k])
    /\ exit_code' = 0
    /\ pc' = "exit"
    /\ UNCHANGED <<inputs, handles, args, sources, W, H, slots, total, i,
                   slot_idx, new_page, writer, out_file, frame>>

\* lines 517-523: every input is a file
MainValidated ==
    /\ pc = "validate"
    /\ \A k \in 1..Len(inputs) : IsFile(inputs[k])
    /\ pc' = "load"
    /\ UNCHANGED <<inputs, exit_code, handles, args, sources, W, H, slots,
                   total, i, slot_idx, new_page, writer, out_file, frame>>

\* line 526, PdfReader(p) of the next input: the library opens the file for
\* reading
LoadReaderOpen ==
    /\ pc = "load"
    /\ Len(sources) < Len(inputs)
    /\ handles' = handles \cup {inputs[Len(sources) + 1]}
    /\ pc' = "read"
    /\ UNCHANGED <<inputs, exit_code, args, sources, W, H, slots, total, i,
                   slot_idx, new_page, writer, out_file, frame>>

\* mutant: a file that cannot be parsed gives an empty reader
LoadReaderReadLenient ==
    /\ pc = "read"
    /\ LET k == Len(sources) + 1
       IN  /\ handles' = handles \ {inputs[k]}
           /\ sources' = Append(sources, PdfReader(k, inputs[k]))
           /\ pc' = IF k = Len(inputs) THEN "build" ELSE "load"
    /\ UNCHANGED <<inputs, exit_code, args, W, H, slots, total, i, slot_idx,
                   new_page, writer, out_file, frame>>

\* line 526, PdfReader(p) continued: the library reads the bytes, closes the
\* file and parses the bytes: a file that is no PDF raises, otherwise the
\* reader joins the list; after the last one main calls the builder (528-551)
LoadReaderRead ==
    /\ pc = "read"
    /\ LET k == Len(sources) + 1
       IN  /\ handles' = handles \ {inputs[k]}
           /\ IF Malformed(inputs[k])
              THEN /\ pc' = "PdfReadError"
                   /\ UNCHANGED sources
              ELSE /\ sources' = Append(sources, PdfReader(k, inputs[k]))
                   /\ pc' = IF k = Len(inputs) THEN "build" ELSE "load"
    /\ UNCHANGED <<inputs, exit_code, args, W, H, slots, total, i, slot_idx,
                   new_page, writer, out_file, frame>>

\* lines 553 and 557: the builder returned, main prints and returns: status 0
MainWrote ==
    /\ pc = "done"
    /\ exit_code' = 0
    /\ pc' = "exit"
    /\ UNCHANGED <<inputs, handles, args, sources, W, H, slots, total, i,
                   slot_idx, new_page, writer, out_file, frame>>

\* line 557: an exception leaves main(), the interpreter prints the traceback
\* and ends the process with status 1
MainUncaught ==
    /\ pc \in Raised
    /\ exit_code' = 1
    /\ pc' = "exit"
    /\ UNCHANGED <<inputs, handles, args, sources, W, H, slots, total, i,
                   slot_idx, new_page, writer, out_file, frame>>

NextMain ==
    \/ MainResolveInputs
    \/ MainInteractivePick
    \/ MainSearch
    \/ MainNoInputs
    \/ MainTruncate
    \/ MainFileNotFound
    \/ MainValidated
    \/ LoadReaderOpen
    \/ LoadReaderRead
    \/ Next
    \/ OpenOutputFails
    \/ WriteOutputFails
    \/ MainWrote
    \/ MainUncaught

SpecMain == InitMain /\ [][NextMain]_vars

-----------------------------------------------------------------------------
(* Properties *)

SetMax(S) == CHOOSE m \in S : \A x \in S : x <= m
SetMin(S) == CHOOSE m \in S : \A x \in S : m <= x

CountSet == {Len(sources[k].pages) : k \in 1..Len(sources)}

SlotCount == IF args.mode = "2up" THEN 2 ELSE 4

\* the 0-based source index the layout assigns to slot s
AssignedSource(s) == IF s < Len(sources) THEN s ELSE Len(sources) - 1

\* C1: when a builder has finished, the number of sheets of the output
\* document is the largest page count of the sources under 'longest' and the
\* smallest under 'shortest'.
C1_SheetCount ==
    pc = "done" =>
        /\ Len(out_file.pages) = Len(writer)
        /\ args.stop = "longest" => Len(writer) = SetMax(CountSet)
        /\ args.stop = "shortest" => Len(writer) = SetMin(CountSet)

C1_Witness ==
    /\ pc = "done"
    /\ args.stop = "longest"
    /\ args.mode = "4up"
    /\ Len(sources) = 3
    /\ Cardinality(CountSet) = 3
    /\ Len(out_file.pages) = 3

\* C2: every page placed in slot s comes from source min(s, sourceCount - 1);
\* a single source with n pages gives, under 'longest', n sheets, and sheet i
\* shows page i of that source once in every slot (2 slots in 2-up, 4 in 4-up).
PlacedFromAssigned(sheet) ==
    \A q \in 1..Len(sheet.content) :
        sheet.content[q].src_page.reader = AssignedSource(sheet.content[q].slot) + 1

C2_SlotSource ==
    /\ \A k \in 1..Len(writer) : PlacedFromAssigned(writer[k])
    /\ pc = "slots" => PlacedFromAssigned(new_page)
    /\ (pc = "done" /\ Len(sources) = 1 /\ args.stop = "longest") =>
           /\ Len(writer) = Len(sources[1].pages)
           /\ \A k \in 1..Len(writer) :
                  /\ Len(writer[k].content) = SlotCount
                  /\ \A s \in 1..SlotCount :
                         /\ writer[k].content[s].slot = s - 1
                         /\ writer[k].content[s].src_page = sources[1].pages[k]

C2_Witness ==
    /\ pc = "done"
    /\ args.mode = "4up"
    /\ args.stop = "longest"
    /\ Len(sources) = 1
    /\ Len(sources[1].pages) = 3
    /\ Len(writer) = 3
    /\ \A k \in 1..3 : Len(writer[k].content) = 4

\* C3: on sheet k, slot s holds exactly page k of its assigned source when that
\* source has a page k, and nothing otherwise; no page access is out of range.
\* Sources with page counts [1, 3] in 2-up give 1 sheet under 'shortest' and 3
\* under 'longest', the 2nd and 3rd with the left slot blank, the right filled.
SlotFilledRight(sheet, k, s) ==
    LET r      == AssignedSource(s) + 1
        placed == {q \in 1..Len(sheet.content) : sheet.content[q].slot = s}
    IN  IF k < Len(sources[r].pages)
        THEN /\ Cardinality(placed) = 1
             /\ \A q \in placed : sheet.content[q].src_page = sources[r].pages[k + 1]
        ELSE placed = {}

C3_ExactPageOrBlank ==
    /\ pc # "IndexError"
    /\ \A k \in 1..Len(writer) :
           \A s \in 0..(SlotCount - 1) : SlotFilledRight(writer[k], k - 1, s)
    /\ (pc = "done" /\ args.mode = "2up" /\ Len(sources) = 2
        /\ Len(sources[1].pages) = 1 /\ Len(sources[2].pages) = 3) =>
           /\ args.stop = "shortest" => Len(writer) = 1
           /\ args.stop = "longest" =>
                  /\ Len(writer) = 3
                  /\ \A k \in 2..3 :
                         /\ Len(writer[k].content) = 1
                         /\ writer[k].content[1].slot = 1

C3_Witness ==
    /\ pc = "done"
    /\ args.mode = "2up"
    /\ args.stop = "longest"
    /\ Len(sources) = 2
    /\ Len(sources[1].pages) = 1
    /\ Len(sources[2].pages) = 3
    /\ Len(writer) = 3
    /\ Len(writer[3].content) = 1

\* the four corners of the media rectangle of a page
Corners(page) ==
    {<<R(0), R(0)>>, <<page.mediabox.width, R(0)>>,
     <<R(0), page.mediabox.height>>,
     <<page.mediabox.width, page.mediabox.height>>}

InsideSlot(f, pt) ==
    /\ RLe(f.slot_x, pt[1]) /\ RLe(pt[1], RAdd(f.slot_x, f.slot_w))
    /\ RLe(f.slot_y, pt[2]) /\ RLe(pt[2], RAdd(f.slot_y, f.slot_h))

\* a viewer shows a page declared /Rotate 90 turned a quarter clockwise:
\* (x, y) -> (y, -x); the placement is upright when its linear part is a
\* positive multiple of that map
Upright90(t) ==
    /\ t[1] = R(0) /\ t[4] = R(0)
    /\ RLt(R(0), t[3])
    /\ t[2] = RNeg(t[3])

\* C4: a page declared rotated by 90 degrees, placed into a portrait slot, is
\* upright and its transformed media rectangle lies inside the slot rectangle.
C4_RotatedInsideSlot ==
    (/\ pc = "placed"
     /\ frame.rot = 90
     /\ RLt(R(0), frame.slot_w)
     /\ RLt(frame.slot_w, frame.slot_h)) =>
        /\ Upright90(frame.t)
        /\ \A c \in Corners(frame.src_page) :
               InsideSlot(frame, Apply(frame.t, c[1], c[2]))

\* C5: for a slot and a page of positive size, the base scale makes the
\* upright page fit the slot on both axes and fill it on at least one.
C5_BaseScaleFits ==
    (/\ pc = "placed"
     /\ RLt(R(0), frame.slot_w) /\ RLt(R(0), frame.slot_h)
     /\ RLt(R(0), frame.src_w) /\ RLt(R(0), frame.src_h)) =>
        LET sw == RMul(frame.src_w, frame.base_scale)
            sh == RMul(frame.src_h, frame.base_scale)
        IN  /\ RLe(sw, frame.slot_w)
            /\ RLe(sh, frame.slot_h)
            /\ sw = frame.slot_w \/ sh = frame.slot_h
            /\ frame.base_scale \in {RDiv(frame.slot_w, frame.src_w),
                                     RDiv(frame.slot_h, frame.src_h)}

C5_Witness ==
    /\ pc = "placed"
    /\ RLt(R(0), frame.slot_w) /\ RLt(R(0), frame.slot_h)
    /\ RMul(frame.src_w, frame.base_scale) = frame.slot_w
    /\ RLt(RMul(frame.src_h, frame.base_scale), frame.slot_h)

\* C6: with a positive base scale, a zoom <= 0 or > 1 gives exactly the base
\* scale and a zoom in (0, 1] gives base scale * zoom; the effective scale
\* never exceeds the base scale.
C6_ZoomClamp ==
    pc = "placed" =>
        /\ RLe(frame.scale, frame.base_scale)
        /\ RLt(R(0), frame.base_scale) =>
               /\ RLe(frame.zoom_arg, R(0)) => frame.scale = frame.base_scale
               /\ (RLt(R(0), frame.zoom_arg) /\ RLe(frame.zoom_arg, R(1))) =>
                      frame.scale = RMul(frame.base_scale, frame.zoom_arg)
               /\ RLt(R(1), frame.zoom_arg) => frame.scale = frame.base_scale

C6_Witness ==
    /\ pc = "placed"
    /\ RLt(R(0), frame.base_scale)
    /\ frame.zoom_arg = Rat(3, 2)
    /\ frame.scale = frame.base_scale

\* C7: the horizontal offset is slot_x + (slot_w - upright width * scale) / 2
\* whatever the alignment: placements that differ only in the alignment have
\* the same horizontal offset and the same scale.
C7_HorizontalCentered ==
    pc = "placed" =>
        /\ RAdd(frame.x_offset, frame.x_offset) =
               RSub(RAdd(RAdd(frame.slot_x, frame.slot_x), frame.slot_w),
                    RMul(frame.src_w, frame.scale))
        /\ \A al \in Aligns :
               LET g == PlaceLocals(frame.src_page, frame.slot_x, frame.slot_y,
                                    frame.slot_w, frame.slot_h, frame.zoom_arg, al)
               IN  g.x_offset = frame.x_offset /\ g.scale = frame.scale

C7_Witness ==
    /\ pc = "placed"
    /\ frame.align = "top"
    /\ RLt(RMul(frame.src_w, frame.scale), frame.slot_w)
    /\ RLt(frame.slot_x, frame.x_offset)

\* C8: the vertical offset is slot_y for 'bottom', slot_y + (slot_h - scaled
\* height) for 'top' and the midpoint of the two for 'center'; when the slot is
\* at least as tall as the scaled content, top >= center >= bottom.
C8_VerticalOffsets ==
    pc = "placed" =>
        LET sh  == RMul(frame.src_h, frame.scale)
            top == YOffset("top", frame.slot_y, frame.slot_h, frame.src_h, frame.scale)
            cen == YOffset("center", frame.slot_y, frame.slot_h, frame.src_h, frame.scale)
            bot == YOffset("bottom", frame.slot_y, frame.slot_h, frame.src_h, frame.scale)
        IN  /\ frame.align = "bottom" => frame.y_offset = frame.slot_y
            /\ frame.align = "top" =>
                   RAdd(frame.y_offset, sh) = RAdd(frame.slot_y, frame.slot_h)
            /\ frame.align = "center" =>
                   RAdd(RAdd(frame.y_offset, frame.y_offset), sh) =
                       RAdd(RAdd(frame.slot_y, frame.slot_y), frame.slot_h)
            /\ RLe(sh, frame.slot_h) => RLe(cen, top) /\ RLe(bot, cen)

C8_Witness ==
    /\ pc = "placed"
    /\ frame.align = "center"
    /\ RLt(RMul(frame.src_h, frame.scale), frame.slot_h)
    /\ RLt(frame.slot_y, frame.y_offset)

\* C9: compute_upright_size returns the media width and height unchanged for
\* rotation 0 or 180, swapped for 90 or 270, and the page's rotation value.
C9_UprightSize ==
    pc = "placed" =>
        LET page == frame.src_page
        IN  /\ frame.rot = page.rotation
            /\ page.rotation \in {0, 180} =>
                   /\ frame.src_w = page.mediabox.width
                   /\ frame.src_h = page.mediabox.height
            /\ page.rotation \in {90, 270} =>
                   /\ frame.src_w = page.mediabox.height
                   /\ frame.src_h = page.mediabox.width

C9_Witness ==
    /\ pc = "placed"
    /\ frame.src_page.rotation = 270
    /\ frame.src_page.mediabox.width # frame.src_page.mediabox.height
    /\ frame.src_w = frame.src_page.mediabox.height

\* C10: in 2-up the sheet is landscape for letter (792 x 612) and a4
\* (842 x 595) whatever the orientation; in 4-up it is the preset as is for
\* 'portrait' and swapped for 'landscape'; every sheet has these dimensions.
PresetDims ==
    IF args.sheet = "letter" THEN <<R(612), R(792)>> ELSE <<R(595), R(842)>>

C10_SheetDims ==
    pc # "build" =>
        /\ args.mode = "2up" =>
               /\ RLt(H, W)
               /\ W = PresetDims[2] /\ H = PresetDims[1]
        /\ (args.mode = "4up" /\ args.orientation = "portrait") =>
               W = PresetDims[1] /\ H = PresetDims[2]
        /\ (args.mode = "4up" /\ args.orientation = "landscape") =>
               W = PresetDims[2] /\ H = PresetDims[1]
        /\ \A k \in 1..Len(writer) : writer[k].width = W /\ writer[k].height = H
        /\ pc = "slots" => new_page.width = W /\ new_page.height = H

C10_Witness ==
    /\ pc = "done"
    /\ args.mode = "2up"
    /\ args.sheet = "a4"
    /\ args.orientation = "portrait"
    /\ Len(writer) = 2
    /\ writer[2].width = R(842) /\ writer[2].height = R(595)

\* margin and gutters of the run in points (72 per inch)
MarginPt == RMul(args.margin_in, R(72))
GutterXPt == RMul(args.gutter_in, R(72))
GutterYPt == RMul(args.gutter_y_in, R(72))

\* C11: 2-up has two slots [left, right] of size ((W - 2*margin - gutter)/2,
\* H - 2*margin), both with bottom edge at y = margin; the left one starts at
\* x = margin and the right one `gutter` to the right of the left one's right
\* edge.
C11_Slots2up ==
    (pc # "build" /\ args.mode = "2up") =>
        /\ Len(slots) = 2
        /\ \A s \in 1..2 :
               /\ RAdd(RAdd(slots[s][3], slots[s][3]),
                       RAdd(RAdd(MarginPt, MarginPt), GutterXPt)) = W
               /\ RAdd(slots[s][4], RAdd(MarginPt, MarginPt)) = H
               /\ slots[s][2] = MarginPt
        /\ slots[1][1] = MarginPt
        /\ slots[2][1] = RAdd(RAdd(slots[1][1], slots[1][3]), GutterXPt)

C11_Witness ==
    /\ pc = "done"
    /\ args.mode = "2up"
    /\ args.sheet = "letter"
    /\ args.margin_in = Rat(1, 2)
    /\ args.gutter_in = Rat(1, 4)
    /\ slots = << <<R(36), R(36), R(351), R(540)>>,
                  <<R(405), R(36), R(351), R(540)>> >>

\* C12: 4-up has four slots of size ((W - 2*margin - gutterX)/2,
\* (H - 2*margin - gutterY)/2) in the order top-left, top-right, bottom-left,
\* bottom-right: the top row at y = margin + slot height + gutterY, the bottom
\* row at y = margin, slots 0 and 2 in the left column, 1 and 3 in the right.
C12_Slots4up ==
    (pc # "build" /\ args.mode = "4up") =>
        /\ Len(slots) = 4
        /\ \A s \in 1..4 :
               /\ RAdd(RAdd(slots[s][3], slots[s][3]),
                       RAdd(RAdd(MarginPt, MarginPt), GutterXPt)) = W
               /\ RAdd(RAdd(slots[s][4], slots[s][4]),
                       RAdd(RAdd(MarginPt, MarginPt), GutterYPt)) = H
        /\ \A s \in {1, 2} :
               slots[s][2] = RAdd(RAdd(MarginPt, slots[s][4]), GutterYPt)
        /\ \A s \in {3, 4} : slots[s][2] = MarginPt
        /\ \A s \in {1, 3} : slots[s][1] = MarginPt
        /\ \A s \in {2, 4} :
               slots[s][1] = RAdd(RAdd(MarginPt, slots[s][3]), GutterXPt)

C12_Witness ==
    /\ pc = "done"
    /\ args.mode = "4up"
    /\ args.sheet = "letter"
    /\ args.orientation = "portrait"
    /\ args.margin_in = Rat(1, 2)
    /\ args.gutter_in = Rat(1, 4)
    /\ args.gutter_y_in = Rat(1, 4)
    /\ slots[1] = <<R(36), R(405), R(261), R(351)>>
    /\ slots[4] = <<R(315), R(36), R(261), R(351)>>

\* C19: sheets are appended one at a time in increasing sheet-index order,
\* each only when all of its slots have been processed, and an appended sheet
\* never changes: the document only grows at its end, and its k-th sheet holds
\* only source pages with page index k.
C19_AppendOnly ==
    [][/\ Len(writer') \in {Len(writer), Len(writer) + 1}
       /\ \A k \in 1..Len(writer) : writer'[k] = writer[k]
       /\ Len(writer') = Len(writer) + 1 =>
              /\ pc = "slots"
              /\ slot_idx = Len(slots)
              /\ i = Len(writer)
              /\ writer'[Len(writer')] = new_page
       /\ \A k \in 1..Len(writer') :
              \A q \in 1..Len(writer'[k].content) :
                  writer'[k].content[q].src_page.number = k - 1]_vars

C19_Witness ==
    /\ pc = "slots"
    /\ Len(writer) = 2
    /\ i = 2
    /\ slot_idx = 1
    /\ Len(new_page.content) = 1
    /\ writer[1] # writer[2]

\* the point (x, y) turned by the negative of rot degrees about the origin
TurnedBack(rot, x, y) ==
    IF rot = 90 THEN <<y, RNeg(x)>>
    ELSE IF rot = 180 THEN <<RNeg(x), RNeg(y)>>
    ELSE IF rot = 270 THEN <<RNeg(y), x>>
    ELSE <<x, y>>

ProbePoints(page) ==
    Corners(page) \cup {<<R(1), R(0)>>, <<R(0), R(1)>>, <<R(3), R(7)>>}

\* C20: the placement transform maps a point of the page by first turning it
\* by the negative of the declared rotation about the origin (nothing for
\* rotation 0), then scaling both coordinates by the effective scale, then
\* adding (x_offset, y_offset).
C20_RotateScaleTranslate ==
    pc = "placed" =>
        \A pt \in ProbePoints(frame.src_page) :
            LET r == TurnedBack(frame.src_page.rotation, pt[1], pt[2])
            IN  Apply(frame.t, pt[1], pt[2]) =
                    <<RAdd(RMul(r[1], frame.scale), frame.x_offset),
                      RAdd(RMul(r[2], frame.scale), frame.y_offset)>>

C20_Witness ==
    /\ pc = "placed"
    /\ frame.src_page.rotation = 270
    /\ RLt(R(0), frame.scale) /\ RLt(frame.scale, R(1))
    /\ frame.x_offset # R(0) /\ frame.y_offset # R(0)

\* a slot of the current layout has a non-positive width or height
NonPositiveSlot ==
    \E s \in 1..Len(slots) : RLe(slots[s][3], R(0)) \/ RLe(slots[s][4], R(0))

\* C13: once the margins and gutters leave a slot with a non-positive width or
\* height, the configuration is rejected before any sheet is composed: no
\* blank sheet is created, no page is placed, no sheet is appended and nothing
\* is written.
C13_NonPositiveSlotsRejected ==
    NonPositiveSlot =>
        /\ new_page = None
        /\ frame = None
        /\ writer = <<>>
        /\ out_file = None

\* an option of the call holds a token that is no choice of the program (the
\* orientation is a parameter of build_writer_4up only)
UnknownToken ==
    \/ args.sheet \notin Sheets
    \/ args.mode = "4up" /\ args.orientation \notin Orientations
    \/ args.align \notin Aligns
    \/ args.stop \notin Stops

\* C14: a builder called with an unrecognized sheet-size, orientation,
\* alignment or stop-policy token aborts with an error before any sheet is
\* composed: it never gets past its argument checks, no sheet is created, no
\* page is placed and nothing is written.
C14_UnknownTokenAborts ==
    UnknownToken =>
        /\ pc \in {"build", "ValueError"}
        /\ new_page = None
        /\ frame = None
        /\ writer = <<>>
        /\ out_file = None

\* the composed document is in the output file
Written == out_file # None /\ out_file.complete /\ out_file.pages = writer

\* C15: a run of main() that has ended has exit code 0 exactly when the
\* composed document was written; a run that ended without writing it (no
\* input selected, an input that is no file, an error) has a non-zero code.
C15_ExitCodeZeroIffWritten ==
    pc = "exit" => (exit_code = 0 <=> Written)

\* the position of main() is inside a layout builder
InBuilder == pc \in {"build", "loop", "slots", "write", "done"}

\* nothing has been composed and the output path has not been touched
NothingComposed ==
    /\ new_page = None
    /\ frame = None
    /\ writer = <<>>
    /\ out_file = None
    /\ "out" \notin handles

\* an input path that does not exist as a file or cannot be opened as a PDF
BadPath(p) == ~IsFile(p) \/ Malformed(p)

\* the paths the user asked for: the command line paths of a manual run, the
\* picked or found paths otherwise
RequestedPaths ==
    IF args.manual_inputs /\ args.inputs # <<>>
    THEN {args.inputs[k] : k \in 1..Len(args.inputs)}
    ELSE {inputs[k] : k \in 1..Len(inputs)}

\* C16 (as stated): if any requested input path does not exist as a file or
\* cannot be opened as a document, the builder is never called, no source page
\* is placed and the output path is never opened or written.
C16_AnyRequestedPathAborts ==
    (\E p \in RequestedPaths : BadPath(p)) => NothingComposed /\ ~InBuilder

\* C16 (amended): the same for the inputs main() retains, the first 2 (2up) or
\* 4 (4up) of the list; the builder is called only once every retained input
\* is a file and its reader has been constructed.
C16_RetainedInputsValidated ==
    /\ (\E k \in 1..Len(inputs) : BadPath(inputs[k])) =>
           NothingComposed /\ ~InBuilder
    /\ InBuilder =>
           /\ Len(sources) = Len(inputs)
           /\ \A k \in 1..Len(inputs) :
                  /\ IsFile(inputs[k])
                  /\ sources[k] = PdfReader(k, inputs[k])

\* a run that ended on a missing second input, after the first was accepted
C16_Witness ==
    /\ pc = "exit"
    /\ Len(inputs) >= 2
    /\ IsFile(inputs[1]) /\ ~Malformed(inputs[1])
    /\ \E k \in 2..Len(inputs) : BadPath(inputs[k])
    /\ NothingComposed

C18_SerializedAfterLastSheet ==
    [][/\ (out_file' # out_file \/ "out" \in handles' \ handles) =>
              /\ pc \in {"loop", "write"}
              /\ i = total /\ Len(writer) = total
              /\ writer' = writer
       /\ "out" \in handles' \ handles => out_file = None
       /\ pc' = "done" =>
              /\ out_file = [pages |-> <<>>, complete |-> FALSE]
              /\ out_file' = [pages |-> writer, complete |-> TRUE]
       /\ (pc = "slots" /\ pc' \in Raised) => out_file' = None /\ handles' = {}
      ]_vars

\* composing the second sheet failed after the first was appended
C18_Witness ==
    /\ pc = "PdfReadError"
    /\ i = 1 /\ Len(writer) = 1 /\ total = 2
    /\ new_page # None
    /\ out_file = None

\* the rotation of the page is missing, None, or none of 0, 90, 180, 270
RotationAbsentOrMalformed(page) ==
    \/ "rotation" \notin DOMAIN page
    \/ IsNone(page.rotation)
    \/ ~IsNone(page.rotation) /\ page.rotation \notin {0, 90, 180, 270}

\* C21: for a page whose rotation is absent or malformed, compute_upright_size
\* returns the unswapped media width and height with rotation 0, and the
\* transform place_page builds has no rotation: its linear part is the scale
\* times the identity.
C21_MalformedRotationIsZero ==
    (pc = "placed" /\ RotationAbsentOrMalformed(frame.src_page)) =>
        /\ frame.rot = 0
        /\ frame.src_w = frame.src_page.mediabox.width
        /\ frame.src_h = frame.src_page.mediabox.height
        /\ frame.t[1] = frame.scale /\ frame.t[4] = frame.scale
        /\ frame.t[2] = R(0) /\ frame.t[3] = R(0)

\* C22: no step of a builder run changes the sources or the configuration, and
\* after the setup no step changes the sheet size or the slot list; every
\* place_page call receives the configured zoom and alignment and the rectangle
\* of its slot from that list, so a zoom <= 0 replaced by 1.0 inside one call
\* is passed unreplaced to the next.
C22_FrameUnchanged ==
    [][/\ sources' = sources
       /\ args' = args
       /\ pc # "build" => slots' = slots /\ W' = W /\ H' = H
       /\ frame' # frame =>
              /\ frame'.zoom_arg = args.zoom
              /\ frame'.zoom = ZoomOrOne(args.zoom)
              /\ frame'.align = args.align
              /\ <<frame'.slot_x, frame'.slot_y, frame'.slot_w, frame'.slot_h>>
                     = slots[slot_idx + 1]
      ]_vars

\* a page placed on the third sheet with zoom 0 replaced by 1.0 in the call
C22_Witness ==
    /\ pc = "slots"
    /\ i = 2
    /\ args.zoom = R(0)
    /\ frame # None
    /\ frame.src_page.number = 2
    /\ frame.zoom_arg = R(0) /\ frame.zoom = R(1)

\* the run got its paths from the command line (--manual-inputs with paths)
ManualPaths == args.manual_inputs /\ args.inputs # <<>>

\* the first min(k, slots) paths of the command line
OriginalInputs == Slice(args.inputs, Needed(args.mode))

\* the path the clamp rule min(s, k - 1) assigns to slot s (0-based)
ClampPath(s) ==
    OriginalInputs[PyMinInt(s, Len(OriginalInputs) - 1) + 1]

\* the readers of the original inputs, without padding
OriginalReaders ==
    [k \in 1..Len(OriginalInputs) |-> PdfReader(k, OriginalInputs[k])]

\* sheet n (0-based) holds in slot s page n of the file the clamp rule assigns
\* to s, or nothing when that file has no page n
SheetFollowsClamp(sheet, n) ==
    \A s \in 0..(Needed(args.mode) - 1) :
        LET placed == {q \in 1..Len(sheet.content) : sheet.content[q].slot = s}
        IN  IF n < DocPages(ClampPath(s))
            THEN /\ Cardinality(placed) = 1
                 /\ \A q \in placed :
                        /\ sheet.content[q].src_page.doc = ClampPath(s)
                        /\ sheet.content[q].src_page.number = n
            ELSE placed = {}

\* C23: for paths given on the command line, the builder is called with as
\* many sources as the mode has slots, source s being path min(s, k - 1); the
\* sheet count and the page in every (sheet, slot) are those of the clamp rule
\* applied to the first min(k, slots) paths, whatever paths follow them.
C23_PaddingIsClamp ==
    (ManualPaths /\ InBuilder) =>
        /\ Len(sources) = Needed(args.mode)
        /\ \A s \in 0..(Needed(args.mode) - 1) :
               /\ inputs[s + 1] = ClampPath(s)
               /\ sources[s + 1] = PdfReader(s + 1, ClampPath(s))
        /\ pc # "build" => total = Total(OriginalReaders, args.stop)
        /\ \A n \in 1..Len(writer) : SheetFollowsClamp(writer[n], n - 1)
        /\ pc = "done" => Len(writer) = Total(OriginalReaders, args.stop)

\* three paths in 4-up: the third is repeated in the last slot
C23_Witness ==
    /\ pc = "done"
    /\ args.manual_inputs
    /\ args.mode = "4up"
    /\ args.inputs = <<"a.pdf", "b.pdf", "a.pdf">>
    /\ args.stop = "longest"
    /\ Len(writer) = 3
    /\ Len(writer[1].content) = 4
    /\ Len(writer[3].content) = 1

\* the slots (0-based) the layout assigns to source r (1-based)
SlotsOf(r) == {s \in 0..(SlotCount - 1) : AssignedSource(s) + 1 = r}

\* the slots of a sheet that hold a page
FilledSlots(sheet) == {sheet.content[q].slot : q \in 1..Len(sheet.content)}

\* C24: when a builder has finished with no more sources than slots, under
\* 'shortest' every slot of every sheet holds a page; under 'longest' every
\* sheet has a filled slot and page j of every source is on sheet j in every
\* slot assigned to that source.
C24_NoPageDropped ==
    (pc = "done" /\ Len(sources) <= SlotCount) =>
        /\ args.stop = "shortest" =>
               \A n \in 1..Len(writer) :
                   FilledSlots(writer[n]) = 0..(SlotCount - 1)
        /\ args.stop = "longest" =>
               /\ \A n \in 1..Len(writer) : FilledSlots(writer[n]) # {}
               /\ \A r \in 1..Len(sources) :
                      /\ SlotsOf(r) # {}
                      /\ \A j \in 1..Len(sources[r].pages) :
                             /\ j <= Len(writer)
                             /\ \A s \in SlotsOf(r) :
                                    \E q \in 1..Len(writer[j].content) :
                                        /\ writer[j].content[q].slot = s
                                        /\ writer[j].content[q].src_page
                                               = sources[r].pages[j]

\* three sources of 1, 3 and 2 pages in 4-up under 'longest'
C24_Witness ==
    /\ pc = "done"
    /\ args.stop = "longest"
    /\ args.mode = "4up"
    /\ Len(sources) = 3
    /\ Len(sources[1].pages) = 1
    /\ Len(sources[2].pages) = 3
    /\ Len(sources[3].pages) = 2
    /\ Len(writer) = 3
    /\ FilledSlots(writer[2]) = {1, 2, 3}
    /\ FilledSlots(writer[3]) = {1}

\* the configuration has no negative margin or gutter and every slot of the
\* layout has a positive width and height
PositiveLayout ==
    /\ RLe(R(0), args.margin_in)
    /\ RLe(R(0), args.gutter_in)
    /\ RLe(R(0), args.gutter_y_in)
    /\ slots # <<>>
    /\ \A s \in 1..Len(slots) : RLt(R(0), slots[s][3]) /\ RLt(R(0), slots[s][4])

\* slot a lies inside the sheet inset by the margin
InsideMargins(a) ==
    /\ RLe(MarginPt, a[1])
    /\ RLe(RAdd(a[1], a[3]), RSub(W, MarginPt))
    /\ RLe(MarginPt, a[2])
    /\ RLe(RAdd(a[2], a[4]), RSub(H, MarginPt))

\* the interiors of the rectangles a and b do not meet
InteriorsDisjoint(a, b) ==
    \/ RLe(RAdd(a[1], a[3]), b[1])
    \/ RLe(RAdd(b[1], b[3]), a[1])
    \/ RLe(RAdd(a[2], a[4]), b[2])
    \/ RLe(RAdd(b[2], b[4]), a[2])

\* C25: for non-negative margin and gutters that leave positive slot
\* dimensions, every slot of the layout lies inside the sheet inset by the
\* margin and any two slots have disjoint interiors.
C25_SlotsDisjointInsideMargins ==
    PositiveLayout =>
        /\ Len(slots) = SlotCount
        /\ \A s \in 1..Len(slots) : InsideMargins(slots[s])
        /\ \A s, t \in 1..Len(slots) :
               s # t => InteriorsDisjoint(slots[s], slots[t])

\* a 4-up layout with a margin and both gutters
C25_Witness ==
    /\ PositiveLayout
    /\ args.mode = "4up"
    /\ args.margin_in = Rat(1, 2)
    /\ args.gutter_in = Rat(1, 4)
    /\ args.gutter_y_in = Rat(1, 4)
    /\ pc = "loop"

\* C26: a layout builder runs with at least one source, and a run whose
\* selection is empty goes from the selection to its end only: no reader is
\* opened, nothing is composed and no output is written.
C26_NeverEmptySources ==
    /\ InBuilder => Len(sources) >= 1 /\ Len(sources) = Len(inputs)
    /\ pc \in {"loop", "slots", "write", "done"} => total >= 1
    /\ inputs = <<>> =>
           /\ pc \in {"main", "check_inputs", "exit"}
           /\ sources = <<>>
           /\ handles = {}
           /\ NothingComposed

\* a run that ended on an empty selection (no PDF in the current folder)
C26_Witness ==
    /\ pc = "exit"
    /\ args.manual_inputs
    /\ inputs = <<>>
    /\ sources = <<>>
    /\ out_file = None

====
